---- MODULE Spec2Model ----
(***************************************************************************)
(* A model of the iClone NLA toolkit: the motion batch loader that lays    *)
(* motions end to end on the timeline and records where each landed        *)
(* (MotionBatchLoader.py), and the Blender operators that split the merged *)
(* action back into per-clip actions and NLA tracks (nla_clip_splitter.py).*)
(*                                                                         *)
(* Python floats (clip lengths in milliseconds, keyframe and handle times  *)
(* in frames) are held as exact integer numerators over Resolution: the    *)
(* float 1033.5 is the integer 1033 * Resolution + Resolution \div 2 ...   *)
(* Python ints (start_time_ms, start_frame, end_frame, marker frames) are  *)
(* plain integers.  Arithmetic on floats is exact rational arithmetic.     *)
(***************************************************************************)
EXTENDS Integers, Sequences, FiniteSets, TLC

VARIABLES
    motion_files,        \* MotionBatchLoader.motion_files: the pending queue
    loaded_clips_info,   \* MotionBatchLoader.loaded_clips_info: the ledger
    fps,                 \* RLPy.RGlobal.GetFps() of the project
    last_run,            \* queue and gap_frames of the last load that reached its loop
    last_error,          \* the error the last loader call returned ("None": none)
    json_file,           \* the <name>_clips.json sidecar on disk
    exported_clips,      \* the ledger the sidecar on disk was written from
    fcurves,             \* fcurves of the merged (original) action
    original_action,     \* the original action: exists, bound to the armature, use_fake_user
    nla_tracks,          \* armature.animation_data.nla_tracks
    created_actions,     \* the actions the last split added to bpy.data.actions
    timeline_markers,    \* context.scene.timeline_markers
    scene_fps,           \* context.scene.render.fps
    split_log            \* the last Blender operator run: its options, segments, result

blenderVars == <<fcurves, original_action, nla_tracks, created_actions,
                 timeline_markers, scene_fps, split_log>>

vars == <<motion_files, loaded_clips_info, fps, last_run, last_error,
          json_file, exported_clips, fcurves, original_action, nla_tracks,
          created_actions, timeline_markers, scene_fps, split_log>>

---------------------------------------------------------------------------
(* Bounds of the model *)

\* Longest queue the add operation is allowed to build.
MaxQueue == 3

\* Denominator of the fractions that stand for Python floats.
Resolution == 2

---------------------------------------------------------------------------
(* Numbers *)

\* floor(a / b) for b > 0 (TLA+'s \div rounds down).
FloorDiv(a, b) == a \div b

\* int(x) of a Python float x = num / Resolution: truncation towards zero.
PyInt(num) == IF num >= 0 THEN num \div Resolution ELSE -((-num) \div Resolution)

Abs(n) == IF n >= 0 THEN n ELSE -n

\* int(p / q) for q # 0: truncation towards zero.
TruncDiv(p, q) ==
    IF (p >= 0) = (q > 0) THEN Abs(p) \div Abs(q) ELSE -(Abs(p) \div Abs(q))

\* A whole number of milliseconds or frames as a float.
Float(n) == n * Resolution

---------------------------------------------------------------------------
(* Motion files on disk *)

PathA == [dir |-> "lib", stem |-> "jump", ext |-> ".imotion"]
PathB == [dir |-> "lib", stem |-> "walk", ext |-> ".rlmotion"]
PathC == [dir |-> "lib", stem |-> "turn", ext |-> ".FBX"]
PathD == [dir |-> "lib", stem |-> "idle", ext |-> ".bvh"]
PathE == [dir |-> "lib", stem |-> "notes", ext |-> ".txt"]

Paths == {PathA, PathB, PathC, PathD, PathE}

\* str.lower() on the extensions that occur.
Lower(s) == IF s = ".FBX" THEN ".fbx" ELSE s

SUPPORTED_EXTENSIONS == {".rlmotion", ".imotion", ".fbx", ".bvh", ".imotionplus"}

\* path.lower().endswith(self.SUPPORTED_EXTENSIONS)
IsSupported(path) == Lower(path.ext) \in SUPPORTED_EXTENSIONS

\* os.path.splitext(os.path.basename(motion_path))[0]
MotionName(path) == path.stem

\* What the host answers for a motion file: the status of
\* RLPy.RFileIO.LoadMotion, the clip count of the skeleton afterwards and
\* clip.GetLength().GetValue() (a float, in milliseconds) of its last clip.
MotionFile(path) ==
    CASE path = PathA -> [result |-> "Failure", clip_count |-> 0, length |-> 0]
      [] path = PathB -> [result |-> "Success", clip_count |-> 1, length |-> Float(1000)]
      [] path = PathC -> [result |-> "Success", clip_count |-> 1, length |-> Float(500)]
      [] path = PathD -> [result |-> "Success", clip_count |-> 1,
                          length |-> Float(1034) - 1]
      [] OTHER        -> [result |-> "Failure", clip_count |-> 0, length |-> 0]

FpsChoices == {24, 30}

\* gap_frames values a caller passes to the load.
GapChoices == {-1, 0, 2}

---------------------------------------------------------------------------
(* Python list indexing *)

\* The 1-based position list[i] reads or writes, 0 when it raises IndexError.
PyPos(list, i) ==
    IF 0 <= i /\ i < Len(list) THEN i + 1
    ELSE IF i < 0 /\ -i <= Len(list) THEN Len(list) + i + 1
    ELSE 0

\* list[i], list[j] = list[j], list[i]; unchanged when either index raises.
PySwap(list, i, j) ==
    LET p == PyPos(list, i)
        q == PyPos(list, j)
    IN IF p = 0 \/ q = 0 THEN list
       ELSE [list EXCEPT ![p] = list[q], ![q] = list[p]]

\* del list[i] for a valid position i (0-based).
PyDel(list, i) ==
    [k \in 1 .. (Len(list) - 1) |-> IF k < i + 1 THEN list[k] ELSE list[k + 1]]

Contains(list, x) == \E k \in 1 .. Len(list) : list[k] = x

---------------------------------------------------------------------------
(* MotionBatchLoader: the queue *)

RECURSIVE AppendAll(_, _)
\* A variant of the loop that does not look for the path in the queue.
AppendAll(queue, file_paths) ==
    IF file_paths = <<>> THEN queue
    ELSE IF IsSupported(Head(file_paths))
         THEN AppendAll(Append(queue, Head(file_paths)), Tail(file_paths))
         ELSE AppendAll(queue, Tail(file_paths))

RECURSIVE AppendNew(_, _)
\* The loop of add_motion_files: supported paths not yet queued are appended.
AppendNew(queue, file_paths) ==
    IF file_paths = <<>> THEN queue
    ELSE LET path == Head(file_paths)
         IN IF IsSupported(path) /\ ~Contains(queue, path)
            THEN AppendNew(Append(queue, path), Tail(file_paths))
            ELSE AppendNew(queue, Tail(file_paths))

RECURSIVE Added(_, _)
\* The count add_motion_files returns: added += 1 beside each append.
Added(queue, file_paths) ==
    IF file_paths = <<>> THEN 0
    ELSE LET path == Head(file_paths)
         IN IF IsSupported(path) /\ ~Contains(queue, path)
            THEN 1 + Added(Append(queue, path), Tail(file_paths))
            ELSE Added(queue, Tail(file_paths))

PathLists == {<<>>} \cup {<<p>> : p \in Paths} \cup {<<p, q>> : p \in Paths, q \in Paths}

add_motion_files(file_paths) ==
    /\ Len(AppendNew(motion_files, file_paths)) <= MaxQueue
    /\ motion_files' = AppendNew(motion_files, file_paths)
    /\ UNCHANGED <<loaded_clips_info, fps, last_run, last_error, json_file, exported_clips,
                   blenderVars>>

remove_motion_file(index) ==
    /\ motion_files' = IF 0 <= index /\ index < Len(motion_files)
                       THEN PyDel(motion_files, index)
                       ELSE motion_files
    /\ UNCHANGED <<loaded_clips_info, fps, last_run, last_error, json_file, exported_clips,
                   blenderVars>>

clear_motion_files ==
    /\ motion_files' = <<>>
    /\ loaded_clips_info' = <<>>
    /\ UNCHANGED <<fps, last_run, last_error, json_file, exported_clips, blenderVars>>

move_motion_up(index) ==
    /\ motion_files' = IF index > 0
                       THEN PySwap(motion_files, index, index - 1)
                       ELSE motion_files
    /\ UNCHANGED <<loaded_clips_info, fps, last_run, last_error, json_file, exported_clips,
                   blenderVars>>

move_motion_down(index) ==
    /\ motion_files' = IF index < Len(motion_files) - 1
                       THEN PySwap(motion_files, index, index + 1)
                       ELSE motion_files
    /\ UNCHANGED <<loaded_clips_info, fps, last_run, last_error, json_file, exported_clips,
                   blenderVars>>

Indices == (-(MaxQueue + 1)) .. (MaxQueue + 1)

---------------------------------------------------------------------------
(* MotionBatchLoader: load_motions_to_timeline *)

\* A variant that converts every gap_frames, negative ones too.
GapMsSigned(gap_frames, f) == TruncDiv(gap_frames * 1000, f)

\* gap_ms = int((gap_frames / fps) * 1000) if gap_frames > 0 else 0
GapMs(gap_frames, f) ==
    IF gap_frames > 0 THEN TruncDiv(gap_frames * 1000, f) ELSE 0

\* clip_length_frames = int((clip_length_ms / 1000.0) * fps), of a float
LengthFrames(clip_length_ms, f) == TruncDiv(clip_length_ms * f, 1000 * Resolution)

\* start_frame = int((current_time_ms / 1000.0) * fps), of an int
StartFrame(current_time_ms, f) == TruncDiv(current_time_ms * f, 1000)

\* A variant that converts the end time on its own rounding path.
EndFrameFromEndTime(start_frame, clip_length_frames, current_time_ms, clip_length_ms, f) ==
    TruncDiv((current_time_ms * Resolution + clip_length_ms) * f, 1000 * Resolution)

\* end_frame = start_frame + clip_length_frames
EndFrame(start_frame, clip_length_frames, current_time_ms, clip_length_ms, f) ==
    start_frame + clip_length_frames

\* current_time_ms += int(clip_length_ms) + gap_ms
Advance(current_time_ms, clip_length_ms, gap_ms) ==
    current_time_ms + PyInt(clip_length_ms) + gap_ms

\* A variant that numbers the segments by their place in the ledger.
ClipIndexDense(i, clips) == Len(clips)

\* "index": i, the loop's enumerate counter
ClipIndex(i, clips) == i

\* A variant in which a failed load still moves the time cursor.
AfterFailureAdvancing(st) == [st EXCEPT !.current_time_ms = @ + 1000]

\* The else branch of the loop: a failed load is printed, nothing else.
AfterFailure(st) == st

\* One turn of the loop over enumerate(self.motion_files); i counts from 0.
PlaceOne(i, motion_path, st, gap_ms, f) ==
    LET file == MotionFile(motion_path)
    IN IF file.result = "Success"
       THEN IF file.clip_count > 0
            THEN LET clip_length_ms == file.length
                     clip_length_frames == LengthFrames(clip_length_ms, f)
                     start_frame == StartFrame(st.current_time_ms, f)
                     end_frame == EndFrame(start_frame, clip_length_frames,
                                           st.current_time_ms, clip_length_ms, f)
                     clip_info == [index |-> ClipIndex(i, st.clips),
                                   name |-> MotionName(motion_path),
                                   source_file |-> motion_path,
                                   start_time_ms |-> st.current_time_ms,
                                   length_ms |-> clip_length_ms,
                                   start_frame |-> start_frame,
                                   end_frame |-> end_frame,
                                   length_frames |-> clip_length_frames]
                 IN [clips |-> Append(st.clips, clip_info),
                     current_time_ms |-> Advance(st.current_time_ms,
                                                 clip_length_ms, gap_ms)]
            ELSE st
       ELSE AfterFailure(st)

RECURSIVE PlaceFrom(_, _, _, _, _)
PlaceFrom(files, i, st, gap_ms, f) ==
    IF i >= Len(files) THEN st
    ELSE PlaceFrom(files, i + 1, PlaceOne(i, files[i + 1], st, gap_ms, f), gap_ms, f)

\* The ledger a run over files builds, starting from an empty one at time 0.
PlaceAll(files, gap_frames, f) ==
    PlaceFrom(files, 0, [clips |-> <<>>, current_time_ms |-> 0],
              GapMs(gap_frames, f), f).clips

\* A variant that takes the sources that failed to load out of the queue.
load_motions_dropping_failed(has_avatar, gap_frames) ==
    IF ~has_avatar
    THEN /\ last_error' = "No avatar found in scene"
         /\ UNCHANGED <<motion_files, loaded_clips_info, fps, last_run, json_file,
                         exported_clips, blenderVars>>
    ELSE IF motion_files = <<>>
    THEN /\ last_error' = "No motions in queue"
         /\ UNCHANGED <<motion_files, loaded_clips_info, fps, last_run, json_file,
                         exported_clips, blenderVars>>
    ELSE /\ loaded_clips_info' = PlaceAll(motion_files, gap_frames, fps)
         /\ motion_files' =
                SelectSeq(motion_files, LAMBDA path : MotionFile(path).result = "Success")
         /\ last_run' = [queue |-> motion_files, gap_frames |-> gap_frames]
         /\ last_error' = "None"
         /\ UNCHANGED <<fps, json_file, exported_clips, blenderVars>>

load_motions_to_timeline(has_avatar, gap_frames) ==
    IF ~has_avatar
    THEN /\ last_error' = "No avatar found in scene"
         /\ UNCHANGED <<motion_files, loaded_clips_info, fps, last_run, json_file,
                         exported_clips, blenderVars>>
    ELSE IF motion_files = <<>>
    THEN /\ last_error' = "No motions in queue"
         /\ UNCHANGED <<motion_files, loaded_clips_info, fps, last_run, json_file,
                         exported_clips, blenderVars>>
    ELSE IF gap_frames > 0 /\ fps = 0
    THEN \* gap_frames / fps raises before the ledger is reset
         /\ last_error' = "ZeroDivisionError"
         /\ UNCHANGED <<motion_files, loaded_clips_info, fps, last_run, json_file,
                         exported_clips, blenderVars>>
    ELSE /\ loaded_clips_info' = PlaceAll(motion_files, gap_frames, fps)
         /\ last_run' = [queue |-> motion_files, gap_frames |-> gap_frames]
         /\ last_error' = "None"
         /\ UNCHANGED <<motion_files, fps, json_file, exported_clips, blenderVars>>

---------------------------------------------------------------------------
(* MotionLibraryBrowser: load_to_timeline *)

\* gap_ms = int((gap_frames / fps) * 1000) if gap_frames > 0 else 0
BrowserGapMs(gap_frames, f) ==
    IF gap_frames > 0 THEN TruncDiv(gap_frames * 1000, f) ELSE 0

\* One turn of the loop over enumerate(motion_files) of the browser.
BrowserPlaceOne(i, motion_path, st, gap_ms, f) ==
    LET file == MotionFile(motion_path)
    IN IF file.result = "Success" /\ file.clip_count > 0
       THEN LET clip_length_ms == file.length
                clip_length_frames == TruncDiv(clip_length_ms * f, 1000 * Resolution)
                start_frame == TruncDiv(st.current_time_ms * f, 1000)
                end_frame == start_frame + clip_length_frames
            IN [clips |-> Append(st.clips,
                                 [index |-> i,
                                  name |-> MotionName(motion_path),
                                  source_file |-> motion_path,
                                  start_time_ms |-> st.current_time_ms,
                                  length_ms |-> clip_length_ms,
                                  start_frame |-> start_frame,
                                  end_frame |-> end_frame,
                                  length_frames |-> clip_length_frames]),
                current_time_ms |-> st.current_time_ms + PyInt(clip_length_ms) + gap_ms]
       ELSE st

RECURSIVE BrowserPlaceFrom(_, _, _, _, _)
BrowserPlaceFrom(files, i, st, gap_ms, f) ==
    IF i >= Len(files) THEN st
    ELSE BrowserPlaceFrom(files, i + 1,
                          BrowserPlaceOne(i, files[i + 1], st, gap_ms, f), gap_ms, f)

\* The loaded_clips_info MotionLibraryBrowser.load_to_timeline builds for the
\* files of its queue widget, an avatar being there and the queue not empty.
load_to_timeline(files, gap_frames, f) ==
    BrowserPlaceFrom(files, 0, [clips |-> <<>>, current_time_ms |-> 0],
                     BrowserGapMs(gap_frames, f), f).clips

---------------------------------------------------------------------------
(* Blender: animation data *)

\* A keyframe point: co = (frame, value), both handles as (frame, value);
\* frames are floats.  Easing and the handle types are copied like the
\* interpolation mode and are left out.
Key(frame, value, interpolation, hl, hr) ==
    [co |-> <<frame, value>>, interpolation |-> interpolation,
     handle_left |-> hl, handle_right |-> hr]

\* A source keyframe at frame (a float) with handles half a frame and a whole
\* frame away and off the keyframe's own value.
SrcKey(frame, value, interpolation) ==
    Key(frame, value, interpolation,
        <<frame - (Resolution \div 2), value - 1>>, <<frame + Float(1), value + 2>>)

Fcurve(data_path, array_index, points) ==
    [data_path |-> data_path, array_index |-> array_index, keyframe_points |-> points]

\* The merged actions an import can bring: keyframes in ascending frame order.
CurveA ==
    << Fcurve("location", 0,
              << SrcKey(Float(0), 10, "BEZIER"), SrcKey(Float(15), 11, "LINEAR"),
                 SrcKey(Float(29), 12, "BEZIER"), SrcKey(Float(29) + 1, 13, "BEZIER"),
                 SrcKey(Float(30), 14, "CONSTANT"), SrcKey(Float(45), 15, "BEZIER"),
                 SrcKey(Float(59), 16, "BEZIER"), SrcKey(Float(60), 17, "LINEAR") >>),
       Fcurve("rotation_euler", 2,
              << SrcKey(Float(30), 20, "BEZIER"), SrcKey(Float(40), 21, "BEZIER") >>) >>

CurveB ==
    << Fcurve("location", 1,
              << SrcKey(Float(0), 1, "BEZIER"), SrcKey(Float(50), 2, "BEZIER"),
                 SrcKey(Float(120), 3, "LINEAR"), SrcKey(Float(150), 4, "BEZIER") >>),
       Fcurve("scale", 0, << >>) >>

CurveC ==
    << Fcurve("location", 1,
              << SrcKey(Float(0), 1, "BEZIER"), SrcKey(Float(49), 2, "BEZIER"),
                 SrcKey(Float(119) + 1, 3, "LINEAR"), SrcKey(Float(120), 4, "BEZIER") >>) >>

CurveD ==
    << Fcurve("location", 2,
              << SrcKey(Float(-15), 5, "BEZIER"), SrcKey(Float(-12), 6, "BEZIER") >>) >>

\* A short take: what the loader's export of two short motions holds.
CurveE ==
    << Fcurve("location", 0,
              << SrcKey(Float(0), 1, "BEZIER"), SrcKey(Float(30), 2, "LINEAR"),
                 SrcKey(Float(45), 3, "BEZIER") >>) >>

CurveSets == {CurveA, CurveB, CurveC, CurveD}

\* A variant that leaves the end frame out of the range.
InRangeHalfOpen(start_frame, end_frame, frame) ==
    start_frame <= frame /\ frame < end_frame

\* start_frame <= frame <= end_frame
InRange(start_frame, end_frame, frame) ==
    start_frame <= frame /\ frame <= end_frame

\* A variant that never offsets.
NewFrameUnshifted(frame, start_frame, offset_to_zero) == frame

\* new_frame = frame - start_frame if self.offset_to_zero else frame
NewFrame(frame, start_frame, offset_to_zero) ==
    IF offset_to_zero THEN frame - start_frame ELSE frame

\* keyframe_points.insert(frame=, value=, options={'FAST'}): the point the
\* host makes, a Bezier key with flat handles one frame to either side.
InsertedKey(frame, value) ==
    Key(frame, value, "BEZIER",
        <<frame - Float(1), value>>, <<frame + Float(1), value>>)

RECURSIVE InsertPoint(_, _)
\* The host's insert: a point already at that frame is replaced in place,
\* otherwise the new point goes in frame order.
InsertPoint(points, kf) ==
    IF points = <<>> THEN <<kf>>
    ELSE IF Head(points).co[1] = kf.co[1] THEN <<kf>> \o Tail(points)
    ELSE IF Head(points).co[1] > kf.co[1] THEN <<kf>> \o points
    ELSE <<Head(points)>> \o InsertPoint(Tail(points), kf)

\* The import operator's copy of one keyframe: value, interpolation and both
\* handles, the handles' frames offset when offset_to_zero.
CopiedKeyWithHandles(keyframe, start_frame, offset_to_zero) ==
    LET new_frame == NewFrame(keyframe.co[1], start_frame, offset_to_zero)
        new_kf == [InsertedKey(new_frame, keyframe.co[2])
                       EXCEPT !.interpolation = keyframe.interpolation]
    IN IF offset_to_zero
       THEN [new_kf EXCEPT
                !.handle_left = <<keyframe.handle_left[1] - start_frame,
                                  keyframe.handle_left[2]>>,
                !.handle_right = <<keyframe.handle_right[1] - start_frame,
                                   keyframe.handle_right[2]>>]
       ELSE [new_kf EXCEPT !.handle_left = keyframe.handle_left,
                           !.handle_right = keyframe.handle_right]

\* The copy of one keyframe in split-from-metadata and split-by-markers:
\* value and interpolation; the handles stay those of the inserted point.
CopiedKey(keyframe, start_frame, offset_to_zero) ==
    LET new_frame == NewFrame(keyframe.co[1], start_frame, offset_to_zero)
    IN [InsertedKey(new_frame, keyframe.co[2])
            EXCEPT !.interpolation = keyframe.interpolation]

RECURSIVE CopyPoints(_, _, _, _, _, _)
\* for keyframe in fcurve.keyframe_points: copy those in range into acc.
CopyPoints(points, start_frame, end_frame, offset_to_zero, with_handles, acc) ==
    IF points = <<>> THEN acc
    ELSE LET keyframe == Head(points)
             new_kf == IF with_handles
                       THEN CopiedKeyWithHandles(keyframe, start_frame, offset_to_zero)
                       ELSE CopiedKey(keyframe, start_frame, offset_to_zero)
         IN CopyPoints(Tail(points), start_frame, end_frame, offset_to_zero,
                       with_handles,
                       IF InRange(start_frame, end_frame, keyframe.co[1])
                       THEN InsertPoint(acc, new_kf)
                       ELSE acc)

\* A variant that leaves out the channels no keyframe was copied to.
NewActionNonEmpty(clip_name, curves, start_frame, end_frame, offset_to_zero, with_handles) ==
    LET Filled(curve) ==
            \E k \in 1 .. Len(curve.keyframe_points) :
                InRange(start_frame, end_frame, curve.keyframe_points[k].co[1])
        kept == SelectSeq(curves, Filled)
    IN [name |-> clip_name,
        fcurves |-> [c \in 1 .. Len(kept) |->
                        Fcurve(kept[c].data_path, kept[c].array_index,
                               CopyPoints(kept[c].keyframe_points, start_frame,
                                          end_frame, offset_to_zero, with_handles,
                                          <<>>))]]

\* new_action = bpy.data.actions.new(name=clip_name) with one new fcurve per
\* fcurve of the original action (same data_path and array_index), filled
\* with the copies of the keyframes in [start_frame, end_frame].
NewAction(clip_name, curves, start_frame, end_frame, offset_to_zero, with_handles) ==
    [name |-> clip_name,
     fcurves |-> [c \in 1 .. Len(curves) |->
                     Fcurve(curves[c].data_path, curves[c].array_index,
                            CopyPoints(curves[c].keyframe_points, start_frame,
                                       end_frame, offset_to_zero, with_handles,
                                       <<>>))]]

\* nla_tracks.new(), named, then strips.new(name, start, action) and mute.
NewTrack(name, strip_start, action_name, strip_ok) ==
    [name |-> name,
     mute |-> strip_ok,
     strips |-> IF strip_ok
                THEN << [name |-> action_name, frame_start |-> strip_start,
                         action |-> action_name] >>
                ELSE << >>]

\* nla_tracks[0].mute = False, if there is any track
UnmuteFirst(tracks) ==
    IF tracks # <<>> THEN [tracks EXCEPT ![1].mute = FALSE] ELSE tracks

---------------------------------------------------------------------------
(* The JSON sidecar *)

\* JSON text is held as what json.dump writes: an object is the sequence of
\* its <<key, value>> members in the dict's insertion order, a list is a
\* sequence.  A file is [exists, valid, text].
NoFile == [exists |-> FALSE, valid |-> FALSE, text |-> <<>>]

JsonFile(text) == [exists |-> TRUE, valid |-> TRUE, text |-> text]

\* A file json.load raises on.
BrokenFile == [exists |-> TRUE, valid |-> FALSE, text |-> <<>>]

\* A variant that writes the clip's length where its end frame belongs.
JsonDumpClipLength(c) ==
    << <<"index", c.index>>, <<"name", c.name>>, <<"source_file", c.source_file>>,
       <<"start_time_ms", c.start_time_ms>>, <<"length_ms", c.length_ms>>,
       <<"start_frame", c.start_frame>>, <<"end_frame", c.length_frames>>,
       <<"length_frames", c.length_frames>> >>

\* json.dump of one clip_info dict (keys in the order the dict was built).
JsonDumpClip(c) ==
    << <<"index", c.index>>, <<"name", c.name>>, <<"source_file", c.source_file>>,
       <<"start_time_ms", c.start_time_ms>>, <<"length_ms", c.length_ms>>,
       <<"start_frame", c.start_frame>>, <<"end_frame", c.end_frame>>,
       <<"length_frames", c.length_frames>> >>

\* A variant that takes total_frames from the first clip.
JsonDumpMetadataFirst(clips, avatar_name, f) ==
    << <<"version", "1.0">>,
       <<"source", "iClone Motion Batch Loader">>,
       <<"avatar_name", avatar_name>>,
       <<"fps", f>>,
       <<"total_frames", IF clips # <<>> THEN clips[1].end_frame ELSE 0>>,
       <<"clip_count", Len(clips)>>,
       <<"clips", [i \in 1 .. Len(clips) |-> JsonDumpClip(clips[i])]>> >>

\* json.dump(metadata) of export_with_metadata.
JsonDumpMetadata(clips, avatar_name, f) ==
    << <<"version", "1.0">>,
       <<"source", "iClone Motion Batch Loader">>,
       <<"avatar_name", avatar_name>>,
       <<"fps", f>>,
       <<"total_frames", IF clips # <<>> THEN clips[Len(clips)].end_frame ELSE 0>>,
       <<"clip_count", Len(clips)>>,
       <<"clips", [i \in 1 .. Len(clips) |-> JsonDumpClip(clips[i])]>> >>

\* json.load of an object: a dict from its keys, the last member of a key wins.
JsonLoadObject(members) ==
    [k \in {members[i][1] : i \in 1 .. Len(members)} |->
        members[CHOOSE i \in 1 .. Len(members) :
                    /\ members[i][1] = k
                    /\ \A j \in (i + 1) .. Len(members) : members[j][1] # k][2]]

\* json.load of the sidecar: the top object, and each clip of its clips list.
JsonLoad(text) ==
    LET top == JsonLoadObject(text)
    IN [k \in DOMAIN top |->
           IF k = "clips"
           THEN <<>> \o [i \in 1 .. Len(top[k]) |-> JsonLoadObject(top[k][i])]
           ELSE top[k]]

\* dict.get(key, default)
Get(dict, key, default) == IF key \in DOMAIN dict THEN dict[key] ELSE default

\* f"Clip_{i}"
ClipFallbackName(i) ==
    CASE i = 0 -> "Clip_0" [] i = 1 -> "Clip_1" [] i = 2 -> "Clip_2"
      [] i = 3 -> "Clip_3" [] OTHER -> "Clip_n"

\* clip_name, start_frame and end_frame as both metadata operators read them
\* from one clip of the list.
ClipSegment(clip) ==
    [name |-> Get(clip, "name", ClipFallbackName(Get(clip, "index", 0))),
     start_frame |-> Float(Get(clip, "start_frame", 0)),
     end_frame |-> Float(Get(clip, "end_frame", 0))]

RECURSIVE ClipSegments(_)
\* The segments of a clips list, in its order.
ClipSegments(clips) ==
    IF clips = <<>> THEN <<>>
    ELSE <<ClipSegment(Head(clips))>> \o ClipSegments(Tail(clips))

\* Sidecars written by hand or by other tools.
PlainClip(name, start_frame, end_frame) ==
    << <<"name", name>>, <<"start_frame", start_frame>>, <<"end_frame", end_frame>> >>

DocShared ==
    << <<"fps", 30>>,
       <<"clips", << PlainClip("walk", 0, 30), PlainClip("run", 30, 60) >> >> >>

DocDisjoint ==
    << <<"fps", 30>>, <<"exporter", "other">>,
       <<"clips", << PlainClip("walk", 0, 29), PlainClip("run", 30, 59) >> >> >>

DocLedger ==
    JsonDumpMetadata(PlaceAll(<<PathA, PathB, PathC>>, 0, 30), "Avatar", 30)

DocPartial ==
    << <<"clips", << PlainClip("walk", 0, 29),
                     << <<"index", 3>>, <<"start_frame", 30>> >>,
                     PlainClip("back", 59, 45) >> >> >>

DocNoClips == << <<"fps", 25>>, <<"clips", << >> >> >>

DocNoList == << <<"version", "1.0">> >>

SidecarChoices ==
    << NoFile, BrokenFile, JsonFile(DocShared), JsonFile(DocDisjoint),
       JsonFile(DocLedger), JsonFile(DocPartial), JsonFile(DocNoClips),
       JsonFile(DocNoList) >>

---------------------------------------------------------------------------
(* MotionBatchLoader: export_with_metadata *)

\* avatar.GetName()
AvatarName == "Avatar"

\* A variant that lets every ledger through.
AlwaysClipsLoaded(clips) == FALSE

\* if not self.loaded_clips_info
NoClipsLoaded(clips) == clips = <<>>

\* The FBX export is the host's; its exceptions are caught and printed.  The
\* sidecar is written unless opening it fails.
export_with_metadata(has_avatar, write_ok) ==
    IF ~has_avatar
    THEN /\ last_error' = "No avatar found"
         /\ UNCHANGED <<motion_files, loaded_clips_info, fps, last_run, json_file,
                         exported_clips, blenderVars>>
    ELSE IF NoClipsLoaded(loaded_clips_info)
    THEN /\ last_error' = "No clips loaded"
         /\ UNCHANGED <<motion_files, loaded_clips_info, fps, last_run, json_file,
                         exported_clips, blenderVars>>
    ELSE IF ~write_ok
    THEN /\ last_error' = "JSON save failed"
         /\ UNCHANGED <<motion_files, loaded_clips_info, fps, last_run, json_file,
                         exported_clips, blenderVars>>
    ELSE /\ json_file' = JsonFile(JsonDumpMetadata(loaded_clips_info, AvatarName, fps))
         /\ exported_clips' = loaded_clips_info
         /\ last_error' = "None"
         /\ UNCHANGED <<motion_files, loaded_clips_info, fps, last_run, blenderVars>>

---------------------------------------------------------------------------
(* Blender: the three split operators *)

Marker(name, frame) == [name |-> name, frame |-> frame]

MarkerChoices ==
    << << Marker("intro", 0), Marker("", 50), Marker("outro", 120) >>,
       << Marker("outro", 120), Marker("intro", 0), Marker("", 50) >>,
       << Marker("a", -20), Marker("b", -10) >>,
       << Marker("only", 10) >>,
       << >> >>

RECURSIVE InsertByFrame(_, _)
InsertByFrame(sorted, m) ==
    IF sorted = <<>> THEN <<m>>
    ELSE IF m.frame < Head(sorted).frame THEN <<m>> \o sorted
    ELSE <<Head(sorted)>> \o InsertByFrame(Tail(sorted), m)

RECURSIVE SortedMarkers(_)
\* sorted(context.scene.timeline_markers, key=lambda m: m.frame): stable
SortedMarkers(ms) ==
    IF ms = <<>> THEN <<>>
    ELSE InsertByFrame(SortedMarkers(SubSeq(ms, 1, Len(ms) - 1)), ms[Len(ms)])

Max(a, b) == IF a >= b THEN a ELSE b

RECURSIVE MaxOverPoints(_, _)
MaxOverPoints(points, max_frame) ==
    IF points = <<>> THEN max_frame
    ELSE MaxOverPoints(Tail(points), Max(max_frame, Head(points).co[1]))

RECURSIVE MaxFrameFrom(_, _)
MaxFrameFrom(curves, max_frame) ==
    IF curves = <<>> THEN max_frame
    ELSE MaxFrameFrom(Tail(curves), MaxOverPoints(Head(curves).keyframe_points, max_frame))

\* max_frame = 0, then max(max_frame, kf.co.x) over every keyframe
MaxFrame(curves) == MaxFrameFrom(curves, 0)

\* The segments split-by-markers cuts: one per pair of neighbouring markers,
\* ending a frame before the next marker, and one from the last marker to
\* max_frame when max_frame lies beyond it.
MarkerSegments(markers, curves) ==
    LET n == Len(markers)
        between == <<>> \o [i \in 1 .. (n - 1) |->
                       [name |-> IF markers[i].name # "" THEN markers[i].name
                                 ELSE ClipFallbackName(i - 1),
                        start_frame |-> Float(markers[i].frame),
                        end_frame |-> Float(markers[i + 1].frame - 1)]]
        last_marker == markers[n]
        max_frame == MaxFrame(curves)
    IN IF max_frame > Float(last_marker.frame)
       THEN Append(between,
                   [name |-> IF last_marker.name # "" THEN last_marker.name
                             ELSE ClipFallbackName(n - 1),
                    start_frame |-> Float(last_marker.frame),
                    end_frame |-> max_frame])
       ELSE between

\* The new actions of a run, one per segment and in their order.
SplitActions(segments, curves, offset_to_zero, with_handles) ==
    <<>> \o [i \in 1 .. Len(segments) |->
        NewAction(segments[i].name, curves, segments[i].start_frame,
                  segments[i].end_frame, offset_to_zero, with_handles)]

\* A variant that starts the strip at the segment's start whatever the option.
StripStartAtSegment(segment, offset_to_zero) == PyInt(segment.start_frame)

\* strip_start: 0 when offset_to_zero, else int(start_frame).
StripStart(segment, offset_to_zero) ==
    IF offset_to_zero THEN 0 ELSE PyInt(segment.start_frame)

\* A variant that makes the tracks from the last segment to the first.
SplitTracksReversed(segments, offset_to_zero, failing_strip) ==
    <<>> \o [i \in 1 .. Len(segments) |->
        LET j == Len(segments) + 1 - i
        IN NewTrack(segments[j].name, StripStart(segments[j], offset_to_zero),
                    segments[j].name, j # failing_strip)]

\* The tracks a run appends, one per segment; failing_strip is the position
\* of the segment whose strips.new raises (0: none does).
SplitTracks(segments, offset_to_zero, failing_strip) ==
    <<>> \o [i \in 1 .. Len(segments) |->
        NewTrack(segments[i].name, StripStart(segments[i], offset_to_zero),
                 segments[i].name, i # failing_strip)]

NoLog == [op |-> "none", status |-> "none", offset_to_zero |-> FALSE,
          segments |-> <<>>, tracks_before |-> 0, tracks_made |-> 0]

Log(op, status, offset_to_zero, segments, tracks_before, tracks_made) ==
    [op |-> op, status |-> status, offset_to_zero |-> offset_to_zero,
     segments |-> segments, tracks_before |-> tracks_before,
     tracks_made |-> tracks_made]

\* The action bpy.ops.import_scene.fbx binds to the imported armature.
ImportedAction == [exists |-> TRUE, bound |-> TRUE, use_fake_user |-> FALSE]

\* original_action.users
Users(action) == (IF action.bound THEN 1 ELSE 0) + (IF action.use_fake_user THEN 1 ELSE 0)

\* if not self.keep_original_action: remove it when it has no users, else drop
\* its fake user.
HandleOriginal(action, keep_original_action) ==
    IF keep_original_action THEN action
    ELSE IF Users(action) = 0 THEN [action EXCEPT !.exists = FALSE]
    ELSE [action EXCEPT !.use_fake_user = FALSE]

\* A variant that gives up when the sidecar is missing.
MissingSidecarCancelled == "CANCELLED"

\* return {'FINISHED'} after the warning that no sidecar was found
MissingSidecarResult == "FINISHED"

\* NLA_OT_ImportWithMetadata.execute.  The FBX import brings a new armature
\* (no tracks yet) whose action holds fcurves.
ImportWithMetadata(create_nla_tracks, keep_original_action, offset_to_zero, use_custom_fps, failing_strip) ==
    IF ~json_file.exists
    THEN \* WARNING, FBX only
         /\ nla_tracks' = <<>>
         /\ original_action' = ImportedAction
         /\ created_actions' = <<>>
         /\ split_log' = Log("import", MissingSidecarResult, offset_to_zero, <<>>, 0, 0)
         /\ UNCHANGED <<motion_files, loaded_clips_info, fps, last_run, last_error,
                         json_file, exported_clips, fcurves, timeline_markers,
                         scene_fps>>
    ELSE IF ~json_file.valid
    THEN \* json.load raises
         /\ split_log' = Log("import", "CANCELLED", offset_to_zero, <<>>,
                             Len(nla_tracks), 0)
         /\ created_actions' = <<>>
         /\ UNCHANGED <<motion_files, loaded_clips_info, fps, last_run, last_error,
                         json_file, exported_clips, fcurves, original_action,
                         nla_tracks, timeline_markers, scene_fps>>
    ELSE \E metadata \in {JsonLoad(json_file.text)} :
         \E segments \in {ClipSegments(Get(metadata, "clips", <<>>))} :
         \E actions \in {SplitActions(segments, fcurves, offset_to_zero, TRUE)} :
         LET make_tracks == create_nla_tracks /\ actions # <<>>
             tracks == IF make_tracks
                       THEN UnmuteFirst(SplitTracks(segments, offset_to_zero,
                                                    failing_strip))
                       ELSE <<>>
             unbound == IF make_tracks THEN [ImportedAction EXCEPT !.bound = FALSE]
                        ELSE ImportedAction
         IN /\ failing_strip <= Len(segments)
            /\ scene_fps' = IF use_custom_fps /\ "fps" \in DOMAIN metadata
                            THEN metadata["fps"] ELSE scene_fps
            /\ created_actions' = actions
            /\ nla_tracks' = tracks
            /\ original_action' = IF segments = <<>> THEN ImportedAction
                                  ELSE HandleOriginal(unbound, keep_original_action)
            /\ split_log' = Log("import", "FINISHED", offset_to_zero, segments, 0,
                                Len(tracks))
            /\ UNCHANGED <<motion_files, loaded_clips_info, fps, last_run, last_error,
                            json_file, exported_clips, fcurves, timeline_markers>>

\* poll of both split operators: an armature with an action bound.
Poll == original_action.exists /\ original_action.bound

\* NLA_OT_SplitActiveAction.execute
SplitActiveAction(offset_to_zero) ==
    /\ Poll
    /\ \E segments \in {IF json_file.exists /\ json_file.valid
                        THEN ClipSegments(Get(JsonLoad(json_file.text), "clips", <<>>))
                        ELSE <<>>} :
       IF segments = <<>>
       THEN \* no file, unreadable file or no clips: CANCELLED
            /\ split_log' = Log("split_metadata", "CANCELLED", offset_to_zero, <<>>,
                                Len(nla_tracks), 0)
            /\ created_actions' = <<>>
            /\ UNCHANGED <<original_action, nla_tracks>>
       ELSE /\ created_actions' = SplitActions(segments, fcurves, offset_to_zero, FALSE)
            /\ nla_tracks' = UnmuteFirst(nla_tracks \o
                                         SplitTracks(segments, offset_to_zero, 0))
            /\ original_action' = [original_action EXCEPT !.bound = FALSE]
            /\ split_log' = Log("split_metadata", "FINISHED", offset_to_zero,
                                segments, Len(nla_tracks), Len(segments))
    /\ UNCHANGED <<motion_files, loaded_clips_info, fps, last_run, last_error,
                    json_file, exported_clips, fcurves, timeline_markers, scene_fps>>

\* A variant of the operator without the check of the number of markers.
SplitByMarkersUnchecked(offset_to_zero) ==
    /\ Poll
    /\ \E markers \in {SortedMarkers(timeline_markers)} :
       \E segments \in {IF markers = <<>> THEN <<>>
                        ELSE MarkerSegments(markers, fcurves)} :
            /\ created_actions' = SplitActions(segments, fcurves, offset_to_zero, FALSE)
            /\ nla_tracks' = UnmuteFirst(nla_tracks \o
                                         SplitTracks(segments, offset_to_zero, 0))
            /\ original_action' = [original_action EXCEPT !.bound = FALSE]
            /\ split_log' = Log("split_markers", "FINISHED", offset_to_zero,
                                segments, Len(nla_tracks), Len(segments))
    /\ UNCHANGED <<motion_files, loaded_clips_info, fps, last_run, last_error,
                    json_file, exported_clips, fcurves, timeline_markers, scene_fps>>

\* NLA_OT_SplitByMarkers.execute
SplitByMarkers(offset_to_zero) ==
    /\ Poll
    /\ \E markers \in {SortedMarkers(timeline_markers)} :
       IF Len(markers) < 2
       THEN /\ split_log' = Log("split_markers", "CANCELLED", offset_to_zero, <<>>,
                                Len(nla_tracks), 0)
            /\ created_actions' = <<>>
            /\ UNCHANGED <<original_action, nla_tracks>>
       ELSE \E segments \in {MarkerSegments(markers, fcurves)} :
            /\ created_actions' = SplitActions(segments, fcurves, offset_to_zero, FALSE)
            /\ nla_tracks' = UnmuteFirst(nla_tracks \o
                                         SplitTracks(segments, offset_to_zero, 0))
            /\ original_action' = [original_action EXCEPT !.bound = FALSE]
            /\ split_log' = Log("split_markers", "FINISHED", offset_to_zero,
                                segments, Len(nla_tracks), Len(segments))
    /\ UNCHANGED <<motion_files, loaded_clips_info, fps, last_run, last_error,
                    json_file, exported_clips, fcurves, timeline_markers, scene_fps>>

---------------------------------------------------------------------------
(* Specifications *)

NoRun == [queue |-> <<>>, gap_frames |-> 0]

LoaderFresh ==
    /\ loaded_clips_info = <<>>
    /\ last_run = NoRun
    /\ last_error = "not called"
    /\ exported_clips = <<>>

BlenderIdle ==
    /\ fcurves = CurveE
    /\ original_action = ImportedAction
    /\ nla_tracks = <<>>
    /\ created_actions = <<>>
    /\ timeline_markers = <<>>
    /\ scene_fps = 24
    /\ split_log = NoLog

\* The loader: the queue and the load.
Init ==
    /\ motion_files = <<>>
    /\ LoaderFresh
    /\ fps \in FpsChoices
    /\ json_file = NoFile
    /\ BlenderIdle

Next ==
    \/ \E file_paths \in PathLists : add_motion_files(file_paths)
    \/ \E index \in Indices : remove_motion_file(index)
    \/ clear_motion_files
    \/ \E index \in Indices : move_motion_up(index)
    \/ \E index \in Indices : move_motion_down(index)
    \/ \E has_avatar \in BOOLEAN, gap_frames \in GapChoices :
           load_motions_to_timeline(has_avatar, gap_frames)

Spec == Init /\ [][Next]_vars

\* Frame rates the host should never report.
InvalidFpsChoices == {-30, 0}

\* The loader in a project whose frame rate is not positive.
InitFps ==
    /\ motion_files = <<>>
    /\ LoaderFresh
    /\ fps \in InvalidFpsChoices
    /\ json_file = NoFile
    /\ BlenderIdle

SpecFps == InitFps /\ [][Next]_vars

\* Tracks an armature may already carry when a split operator runs on it.
MaxOldTracks == 1

OldTrack(mute) ==
    [name |-> "old", mute |-> mute,
     strips |-> << [name |-> "old", frame_start |-> 0, action |-> "old"] >>]

OldTrackChoices ==
    UNION {[1 .. n -> {OldTrack(TRUE), OldTrack(FALSE)}] : n \in 0 .. MaxOldTracks}

\* Blender: an armature with its merged action bound, a sidecar on disk and
\* markers on the timeline; then the three operators.
InitSplit ==
    /\ motion_files = <<>>
    /\ LoaderFresh
    /\ fps = 30
    /\ \E k \in 1 .. Len(SidecarChoices) : json_file = SidecarChoices[k]
    /\ fcurves \in CurveSets
    /\ original_action = ImportedAction
    /\ nla_tracks \in OldTrackChoices
    /\ created_actions = <<>>
    /\ \E k \in 1 .. Len(MarkerChoices) : timeline_markers = MarkerChoices[k]
    /\ scene_fps = 24
    /\ split_log = NoLog

MaxClips == 3

NextSplit ==
    \/ \E create_nla_tracks \in BOOLEAN, keep_original_action \in BOOLEAN,
          offset_to_zero \in BOOLEAN, use_custom_fps \in BOOLEAN,
          failing_strip \in 0 .. MaxClips :
           ImportWithMetadata(create_nla_tracks, keep_original_action,
                              offset_to_zero, use_custom_fps, failing_strip)
    \/ \E offset_to_zero \in BOOLEAN : SplitActiveAction(offset_to_zero)
    \/ \E offset_to_zero \in BOOLEAN : SplitByMarkers(offset_to_zero)

SpecSplit == InitSplit /\ [][NextSplit]_vars

\* Queues the add operation can have built.
QueueChoices ==
    {q \in UNION {[1 .. n -> {p \in Paths : IsSupported(p)}] : n \in 0 .. MaxQueue} :
        \A i \in 1 .. Len(q), j \in 1 .. Len(q) : i # j => q[i] # q[j]}

\* From the loader to Blender: load, export, import with the sidecar written.
InitPipeline ==
    /\ LoaderFresh
    /\ motion_files \in QueueChoices
    /\ fps \in FpsChoices
    /\ json_file = NoFile
    /\ BlenderIdle

NextPipeline ==
    \/ \E has_avatar \in BOOLEAN, gap_frames \in GapChoices :
           load_motions_to_timeline(has_avatar, gap_frames)
    \/ \E has_avatar \in BOOLEAN, write_ok \in BOOLEAN :
           export_with_metadata(has_avatar, write_ok)
    \/ \E create_nla_tracks \in BOOLEAN, keep_original_action \in BOOLEAN,
          offset_to_zero \in BOOLEAN, use_custom_fps \in BOOLEAN :
           ImportWithMetadata(create_nla_tracks, keep_original_action,
                              offset_to_zero, use_custom_fps, 0)

SpecPipeline == InitPipeline /\ [][NextPipeline]_vars

---------------------------------------------------------------------------
(* Properties of the ledger *)

\* The ledger is either empty or the one the run logged in last_run built.
Ledger == loaded_clips_info

RunGapMs == GapMs(last_run.gap_frames, fps)

\* The host loads this file and finds a clip for it.
Placeable(path) ==
    MotionFile(path).result = "Success" /\ MotionFile(path).clip_count > 0

SourcesOf(clips) == [p \in 1 .. Len(clips) |-> clips[p].source_file]

\* C1 (as claimed): consecutive segments are contiguous in milliseconds,
\* start[i+1] = start[i] + length_ms[i] + gap_ms, with length_ms the float the
\* segment records.
C1_Contiguity ==
    \A i \in 1 .. (Len(Ledger) - 1) :
        Float(Ledger[i + 1].start_time_ms) =
            Float(Ledger[i].start_time_ms) + Ledger[i].length_ms + Float(RunGapMs)

\* C2: a source that fails to load adds no segment and does not move the time
\* cursor, and the sources after it are still placed: the ledger's sources are
\* the placeable sources of the queue in queue order, the first segment starts
\* at 0 and each next one at the previous start plus the whole milliseconds of
\* the previous length plus the gap; [A(fail), B(1000), C(500)] at fps 30 and
\* gap 0 gives B at frames 0..30 and C at frames 30..45.
C2_PartialFailure ==
    Ledger # <<>> =>
        /\ SourcesOf(Ledger) = SelectSeq(last_run.queue, Placeable)
        /\ Ledger[1].start_time_ms = 0
        /\ \A i \in 1 .. (Len(Ledger) - 1) :
               Ledger[i + 1].start_time_ms =
                   Ledger[i].start_time_ms + PyInt(Ledger[i].length_ms) + RunGapMs
        /\ (last_run.queue = <<PathA, PathB, PathC>> /\ fps = 30
                /\ last_run.gap_frames = 0) =>
               /\ Len(Ledger) = 2
               /\ Ledger[1].source_file = PathB
               /\ Ledger[1].start_frame = 0 /\ Ledger[1].end_frame = 30
               /\ Ledger[2].source_file = PathC
               /\ Ledger[2].start_frame = 30 /\ Ledger[2].end_frame = 45

\* C2's case: the run over [A(fail), B, C] at fps 30 and gap 0 has placed two.
C2_Witness ==
    /\ last_run.queue = <<PathA, PathB, PathC>>
    /\ fps = 30
    /\ last_run.gap_frames = 0
    /\ Len(Ledger) = 2

\* C3 (as claimed): the segment at list position p has index p, counting from 0,
\* also when an earlier source of the queue failed to load.
C3_DenseIndexing ==
    \A p \in 1 .. Len(Ledger) : Ledger[p].index = p - 1

\* C10: every segment's frames derive from its own start and length:
\* end_frame - start_frame = length_frames, length_frames =
\* floor(length_ms / 1000 * fps) and start_frame = floor(start_time_ms / 1000 * fps).
C10_FrameDerivation ==
    \A p \in 1 .. Len(Ledger) :
        /\ Ledger[p].end_frame - Ledger[p].start_frame = Ledger[p].length_frames
        /\ Ledger[p].length_frames =
               FloorDiv(Ledger[p].length_ms * fps, 1000 * Resolution)
        /\ Ledger[p].start_frame = FloorDiv(Ledger[p].start_time_ms * fps, 1000)

\* C10's case: a segment whose end time, converted on its own, lands on
\* another frame than its end_frame.
C10_Witness ==
    \E p \in 1 .. Len(Ledger) :
        FloorDiv((Float(Ledger[p].start_time_ms) + Ledger[p].length_ms) * fps,
                 1000 * Resolution) # Ledger[p].end_frame

---------------------------------------------------------------------------
(* Properties of the split *)

\* The last operator run finished and cut at least one segment.
SplitRan == split_log.status = "FINISHED" /\ split_log.segments # <<>>

Segments == split_log.segments

\* The keyframes of points whose frame lies in the segment's closed range.
KeysInside(points, seg) ==
    LET Inside(k) == seg.start_frame <= k.co[1] /\ k.co[1] <= seg.end_frame
    IN SelectSeq(points, Inside)

\* What the run subtracted from the frames of the segment's keyframes.
Shift(seg) == IF split_log.offset_to_zero THEN seg.start_frame ELSE 0

DestPoints(i, c) == created_actions[i].fcurves[c].keyframe_points

\* C4: for every segment and every channel of the source, the destination
\* channel holds a keyframe for exactly the source keyframes with
\* start_frame <= frame <= end_frame (in their order, with their values), so a
\* keyframe on a frame two segments share is in both results.
C4_ClosedClosedSplit ==
    SplitRan =>
        \A i \in 1 .. Len(Segments) : \A c \in 1 .. Len(fcurves) :
            LET src == KeysInside(fcurves[c].keyframe_points, Segments[i])
                dst == DestPoints(i, c)
            IN /\ Len(dst) = Len(src)
               /\ \A j \in 1 .. Len(src) :
                      dst[j].co = <<src[j].co[1] - Shift(Segments[i]), src[j].co[2]>>

\* C4's case: segments (0,30),(30,60) were cut from a channel with a keyframe
\* at frame 30, and both results hold it.
C4_Witness ==
    /\ SplitRan
    /\ Len(Segments) = 2
    /\ Segments[1].end_frame = Float(30) /\ Segments[2].start_frame = Float(30)
    /\ \E k \in 1 .. Len(fcurves[1].keyframe_points) :
           /\ fcurves[1].keyframe_points[k].co[1] = Float(30)
           /\ \A i \in 1 .. 2 : \E j \in 1 .. Len(DestPoints(i, 1)) :
                  DestPoints(i, 1)[j].co[2] = fcurves[1].keyframe_points[k].co[2]

\* C5 (as claimed): after a split run that produced tracks, the first track the
\* run produced is unmuted and every other track it produced is muted.
C5_MutingConvention ==
    (split_log.status = "FINISHED" /\ split_log.tracks_made > 0) =>
        LET first == split_log.tracks_before + 1
        IN /\ ~nla_tracks[first].mute
           /\ \A k \in (first + 1) .. (split_log.tracks_before + split_log.tracks_made) :
                  nla_tracks[k].mute

\* C6 (as claimed): every copied keyframe carries the source keyframe's value,
\* interpolation and both handles, its frame and both handle frames reduced by
\* start_frame when the run offsets to zero and unchanged otherwise, the
\* handle values unchanged.
C6_RebaseWithHandles ==
    SplitRan =>
        \A i \in 1 .. Len(Segments) : \A c \in 1 .. Len(fcurves) :
            LET src == KeysInside(fcurves[c].keyframe_points, Segments[i])
                dst == DestPoints(i, c)
                d == Shift(Segments[i])
            IN /\ Len(dst) = Len(src)
               /\ \A j \in 1 .. Len(src) :
                      /\ dst[j].co = <<src[j].co[1] - d, src[j].co[2]>>
                      /\ dst[j].interpolation = src[j].interpolation
                      /\ dst[j].handle_left =
                             <<src[j].handle_left[1] - d, src[j].handle_left[2]>>
                      /\ dst[j].handle_right =
                             <<src[j].handle_right[1] - d, src[j].handle_right[2]>>

\* Every keyframe frame of the source action.
SourceFrames ==
    UNION {{fcurves[c].keyframe_points[k].co[1] :
                k \in 1 .. Len(fcurves[c].keyframe_points)} : c \in 1 .. Len(fcurves)}

Bounds(segs) ==
    [i \in 1 .. Len(segs) |-> <<segs[i].start_frame, segs[i].end_frame>>]

\* C7 (as claimed): with the markers sorted ascending m[0..n-1], n >= 2,
\* split-by-markers cuts [m[i], m[i+1] - 1] for each i, followed by a trailing
\* [m[n-1], maxKey] exactly when the largest keyframe frame maxKey of the
\* source is greater than m[n-1].
C7_MarkerSegmentation ==
    (split_log.op = "split_markers" /\ split_log.status = "FINISHED") =>
        LET m == SortedMarkers(timeline_markers)
            n == Len(m)
            between == [i \in 1 .. (n - 1) |->
                           <<Float(m[i].frame), Float(m[i + 1].frame - 1)>>]
            maxKey == CHOOSE x \in SourceFrames : \A y \in SourceFrames : y <= x
        IN Bounds(Segments) =
               IF maxKey > Float(m[n].frame)
               THEN Append(between, <<Float(m[n].frame), maxKey>>)
               ELSE between

\* The segments' closed ranges are disjoint, in order, and tile whole frames:
\* each starts one frame after the one before ends.
Tiling(segs) ==
    /\ \A i \in 1 .. Len(segs) : segs[i].start_frame <= segs[i].end_frame
    /\ \A i \in 1 .. (Len(segs) - 1) :
           segs[i + 1].start_frame = segs[i].end_frame + Float(1)

\* How often <<frame, value>> comes out of the merge: each result's keyframes
\* of channel c moved forward by its segment's start_frame, all taken together.
MergedCount(c, frame, value) ==
    Cardinality({<<i, j>> \in (1 .. Len(Segments)) \X (1 .. Len(fcurves[c].keyframe_points)) :
                    /\ j <= Len(DestPoints(i, c))
                    /\ DestPoints(i, c)[j].co =
                           <<frame - Segments[i].start_frame, value>>})

\* Keyframes of the results of channel c, all segments together.
ResultCount(c) ==
    Cardinality({<<i, j>> \in (1 .. Len(Segments)) \X (1 .. Len(fcurves[c].keyframe_points)) :
                    j <= Len(DestPoints(i, c))})

RebasedTiling == SplitRan /\ split_log.offset_to_zero /\ Tiling(Segments)

\* C9 (as claimed): for segments that tile [lo, hi], split with offset to zero,
\* the merge holds every source keyframe with lo <= frame <= hi exactly once
\* and nothing else.
C9_SplitMergeWholeRange ==
    RebasedTiling =>
        \A c \in 1 .. Len(fcurves) :
            LET points == fcurves[c].keyframe_points
                lo == Segments[1].start_frame
                hi == Segments[Len(Segments)].end_frame
                within == {k \in 1 .. Len(points) :
                              lo <= points[k].co[1] /\ points[k].co[1] <= hi}
            IN /\ \A k \in within :
                      MergedCount(c, points[k].co[1], points[k].co[2]) = 1
               /\ ResultCount(c) = Cardinality(within)

\* C9 (amended): for segments that tile [lo, hi], split with offset to zero,
\* the merge holds exactly the source keyframes whose frame lies in the closed
\* range of one of the segments, each exactly once.
C9_SplitMergeRoundTrip ==
    RebasedTiling =>
        \A c \in 1 .. Len(fcurves) :
            LET points == fcurves[c].keyframe_points
                covered == {k \in 1 .. Len(points) :
                               \E i \in 1 .. Len(Segments) :
                                   /\ Segments[i].start_frame <= points[k].co[1]
                                   /\ points[k].co[1] <= Segments[i].end_frame}
            IN /\ \A k \in covered :
                      MergedCount(c, points[k].co[1], points[k].co[2]) = 1
               /\ ResultCount(c) = Cardinality(covered)

\* C9's case: two or more tiling segments, rebased, cut from a channel with a
\* keyframe on the last frame of the first segment.
C9_Witness ==
    /\ RebasedTiling
    /\ Len(Segments) >= 2
    /\ Segments[2].start_frame > 0
    /\ \E k \in 1 .. Len(fcurves[1].keyframe_points) :
           fcurves[1].keyframe_points[k].co[1] = Segments[1].end_frame
    /\ \E j \in 1 .. Len(DestPoints(2, 1)) : TRUE

---------------------------------------------------------------------------
(* Properties of the sidecar *)

\* The ordered (name, start_frame, end_frame) view of a ledger.
LedgerSegments(clips) ==
    [i \in 1 .. Len(clips) |->
        [name |-> clips[i].name,
         start_frame |-> Float(clips[i].start_frame),
         end_frame |-> Float(clips[i].end_frame)]]

\* What the splitter reads back from the sidecar on disk.
ReadBack == ClipSegments(Get(JsonLoad(json_file.text), "clips", <<>>))

\* C8: the sidecar written from a ledger, read back by the splitter, gives the
\* ledger's (name, start_frame, end_frame) triples, clip by clip, in order.
C8_MetadataRoundTrip ==
    json_file.exists => ReadBack = LedgerSegments(exported_clips)

\* C8's case: the import operator has split by a sidecar the loader wrote
\* from a ledger of two or more segments.
C8_Witness ==
    /\ json_file.exists
    /\ Len(exported_clips) >= 2
    /\ split_log.op = "import" /\ SplitRan
    /\ Segments = LedgerSegments(exported_clips)

---------------------------------------------------------------------------
(* Properties of the queue *)

NoDuplicates(list) ==
    \A i, j \in 1 .. Len(list) : list[i] = list[j] => i = j

\* C11: the queue never holds an identifier twice, whatever appends, removals,
\* moves and clears came before; an append of identifiers that are all queued
\* already leaves the queue as it was and returns 0 added.
C11_QueueUniqueness ==
    /\ NoDuplicates(motion_files)
    /\ \A file_paths \in PathLists :
           (\A k \in 1 .. Len(file_paths) : Contains(motion_files, file_paths[k]))
           => /\ ENABLED add_motion_files(file_paths)
              /\ AppendNew(motion_files, file_paths) = motion_files
              /\ Added(motion_files, file_paths) = 0

\* C11's case: a full queue that appends and a move have put in this order.
C11_Witness ==
    /\ Len(motion_files) = MaxQueue
    /\ motion_files[1] = PathC /\ motion_files[2] = PathA /\ motion_files[3] = PathB

\* The outcomes with which load_motions_to_timeline returns before its loop.
LoadErrors == {"No avatar found in scene", "No motions in queue"}

\* C12 (as claimed): after an invocation of load_motions_to_timeline, whatever
\* its outcome, the ledger holds the segments that invocation placed and no
\* others: none after an invocation that returned an error, those of the run
\* after one that reached the loop; a clear of the queue empties the ledger.
C12_LedgerReplacement ==
    /\ [](last_error \in LoadErrors => Ledger = <<>>)
    /\ [](last_error = "None" =>
              Ledger \in {<<>>, PlaceAll(last_run.queue, last_run.gap_frames, fps)})
    /\ [][clear_motion_files => loaded_clips_info' = <<>>]_vars

\* C13 (as claimed): a run, with an avatar in the scene, over an empty queue
\* and a run over a queue whose sources all fail to load both end with no
\* error outcome, and the run of failing sources leaves an empty ledger.
C13_EmptyResultNoError ==
    [][\A gap_frames \in GapChoices :
           (/\ load_motions_to_timeline(TRUE, gap_frames)
            /\ \A k \in 1 .. Len(motion_files) : ~Placeable(motion_files[k]))
           => /\ last_error' = "None"
              /\ motion_files # <<>> => loaded_clips_info' = <<>>]_vars

---------------------------------------------------------------------------
(* Properties of the split: bad input *)

\* Segments i of the last run with start_frame <= end_frame.
ValidSegments ==
    {i \in 1 .. Len(Segments) : Segments[i].start_frame <= Segments[i].end_frame}

\* C14 (as claimed): a segment with end_frame < start_frame yields no action
\* and no track, so the run's actions are as many as its segments with
\* start_frame <= end_frame, and its tracks are no more than that; the other
\* segments yield theirs.
C14_InvalidSegmentBounds ==
    SplitRan =>
        /\ Len(created_actions) = Cardinality(ValidSegments)
        /\ split_log.tracks_made <= Cardinality(ValidSegments)

\* The last run was one of the two operators that read the sidecar, and the
\* sidecar was there and parsed.
MetadataRan ==
    /\ split_log.op \in {"import", "split_metadata"}
    /\ json_file.exists /\ json_file.valid

RequiredClipFields == {"name", "start_frame", "end_frame"}

\* A required field is absent: the clips list, or a field of one of its clips.
Malformed(metadata) ==
    \/ "clips" \notin DOMAIN metadata
    \/ \E i \in 1 .. Len(metadata["clips"]) :
           ~(RequiredClipFields \subseteq DOMAIN metadata["clips"][i])

\* The clips of well-formed metadata without their extra fields.
RequiredOnly(clips) ==
    [i \in 1 .. Len(clips) |-> [k \in RequiredClipFields |-> clips[i][k]]]

\* C15 (as claimed): metadata that lacks the clips list, or a clip's name,
\* start_frame or end_frame, fails the run and yields no action and no track;
\* metadata with extra fields is split as if they were absent.
C15_MalformedMetadata ==
    MetadataRan =>
        LET metadata == JsonLoad(json_file.text)
        IN IF Malformed(metadata)
           THEN /\ split_log.status = "CANCELLED"
                /\ created_actions = <<>>
                /\ split_log.tracks_made = 0
           ELSE Segments = ClipSegments(RequiredOnly(metadata["clips"]))

\* C16: split-by-markers with fewer than 2 markers fails as a whole: it makes
\* no action and no track, changes no track (no mute flag) and leaves the
\* active action as it was, still bound.
C16_InsufficientMarkers ==
    [][\A offset_to_zero \in BOOLEAN :
           (SplitByMarkers(offset_to_zero) /\ Len(timeline_markers) < 2)
           => /\ split_log'.status = "CANCELLED"
              /\ created_actions' = <<>>
              /\ nla_tracks' = nla_tracks
              /\ original_action' = original_action
              /\ original_action'.bound]_vars

\* C16's case: the operator ran with one marker on an armature whose only
\* track is an older, muted one.
C16_Witness ==
    /\ split_log.op = "split_markers" /\ split_log.status = "CANCELLED"
    /\ Len(timeline_markers) = 1
    /\ Len(nla_tracks) = 1 /\ nla_tracks[1].mute
    /\ original_action.bound

\* C17: when the sidecar does not exist, the import operator brings in the
\* animation unsplit (the imported action stays bound to the armature), makes
\* no action per clip and no track, and finishes rather than fails.
C17_MissingSidecar ==
    (split_log.op = "import" /\ ~json_file.exists) =>
        /\ split_log.status = "FINISHED"
        /\ split_log.segments = <<>>
        /\ created_actions = <<>>
        /\ nla_tracks = <<>>
        /\ original_action.exists /\ original_action.bound

\* C17's case: the import operator ran and there was no sidecar.
C17_Witness ==
    /\ split_log.op = "import"
    /\ ~json_file.exists
    /\ original_action.bound

\* C18 (as claimed): no step of a split operator adds, removes or changes a
\* channel or keyframe of the source action: after the step the source action
\* is there with the channels and keyframes it had.
C18_SourceReadOnly ==
    [][fcurves' = fcurves /\ original_action'.exists]_vars

---------------------------------------------------------------------------
(* Properties of the run's configuration *)

\* C19: between consecutive segments the run adds floor(gap_frames / fps * 1000)
\* milliseconds when gap_frames > 0 and none when gap_frames <= 0: the next
\* start is the previous start plus the whole milliseconds of the previous
\* length plus that gap, and a run with a negative gap_frames places every
\* segment where the run with gap_frames = 0 places it.
C19_GapPolicy ==
    LET gap_frames == last_run.gap_frames
        gap == IF gap_frames > 0 THEN FloorDiv(gap_frames * 1000, fps) ELSE 0
    IN /\ \A i \in 1 .. (Len(Ledger) - 1) :
              Ledger[i + 1].start_time_ms - Ledger[i].start_time_ms
                  - PyInt(Ledger[i].length_ms) = gap
       /\ (gap_frames <= 0 /\ Ledger # <<>>) => Ledger = PlaceAll(last_run.queue, 0, fps)

\* C19's case: a run with a negative gap_frames has placed two segments or more.
C19_Witness ==
    /\ last_run.gap_frames < 0
    /\ Len(Ledger) >= 2

\* C20 (as claimed): with fps <= 0 a run that has an avatar and a queue fails
\* before it places a source, for every gap_frames, and leaves no ledger entry.
C20_InvalidFrameRate ==
    (fps <= 0 /\ last_error \notin ({"not called"} \cup LoadErrors)) =>
        /\ last_error # "None"
        /\ Ledger = <<>>

---------------------------------------------------------------------------
(* Properties of the written record *)

\* The record on disk, parsed.
Written == JsonLoad(json_file.text)

\* C21: in every record export_with_metadata wrote, total_frames is the
\* end_frame of the last entry of clips (0 for no entry) and clip_count is the
\* number of entries of clips.
C21_PersistedHeader ==
    json_file.exists =>
        LET clips == Written["clips"]
        IN /\ Written["total_frames"] =
                  IF clips # <<>> THEN clips[Len(clips)]["end_frame"] ELSE 0
           /\ Written["clip_count"] = Len(clips)

\* C21's case: a written record of two clips or more, the first of which ends
\* before the last.
C21_Witness ==
    /\ json_file.exists
    /\ Len(Written["clips"]) >= 2
    /\ Written["clips"][1]["end_frame"] < Written["total_frames"]

---------------------------------------------------------------------------
(* Properties of the split: shape of the results *)

\* C22: every action a split made has one channel per channel of the source,
\* in the source's order, with its data path and array index, also where no
\* keyframe of the channel, or of any channel, lies in the segment's range.
C22_ConsistentChannelSet ==
    SplitRan =>
        /\ Len(created_actions) = Len(Segments)
        /\ \A i \in 1 .. Len(created_actions) :
               /\ Len(created_actions[i].fcurves) = Len(fcurves)
               /\ \A c \in 1 .. Len(fcurves) :
                      /\ created_actions[i].fcurves[c].data_path = fcurves[c].data_path
                      /\ created_actions[i].fcurves[c].array_index = fcurves[c].array_index

\* C22's case: a split left a channel without keyframes in one result beside
\* a channel with keyframes, and left another result without any keyframe.
C22_Witness ==
    /\ SplitRan
    /\ \E i \in 1 .. Len(created_actions) :
           /\ \E c \in 1 .. Len(fcurves) : DestPoints(i, c) = <<>>
           /\ \E c \in 1 .. Len(fcurves) : DestPoints(i, c) # <<>>
    /\ \E i \in 1 .. Len(created_actions) :
           \A c \in 1 .. Len(fcurves) : DestPoints(i, c) = <<>>

\* Position of x in a list that holds it once.
PositionIn(list, x) == CHOOSE k \in 1 .. Len(list) : list[k] = x

\* C23: the ledger's sources are sources of the queue the run went over, each
\* once and in the queue's order; and the tracks a split made are one per
\* segment, in the order of the segments, each with the strip of its action.
C23_PositionalOrder ==
    /\ \A i \in 1 .. Len(Ledger) : Contains(last_run.queue, Ledger[i].source_file)
    /\ \A i, j \in 1 .. Len(Ledger) :
           i < j => PositionIn(last_run.queue, Ledger[i].source_file)
                        < PositionIn(last_run.queue, Ledger[j].source_file)
    /\ (SplitRan /\ split_log.tracks_made > 0) =>
           /\ split_log.tracks_made = Len(Segments)
           /\ \A i \in 1 .. Len(Segments) :
                  LET track == nla_tracks[split_log.tracks_before + i]
                  IN /\ track.name = Segments[i].name
                     /\ \A k \in 1 .. Len(track.strips) :
                            track.strips[k].action = created_actions[i].name

\* C23's case: a run skipped the first source of its queue and placed two
\* others, and a split of that ledger's record made a track for each.
C23_Witness ==
    /\ Len(last_run.queue) = 3 /\ Len(Ledger) = 2
    /\ Ledger[1].source_file = last_run.queue[2]
    /\ SplitRan /\ split_log.tracks_made = 2
    /\ Segments[1].name = Ledger[1].name /\ Segments[2].name = Ledger[2].name

\* C24: the strip of each track a split made starts at frame 0 when the run
\* offset to zero and at its segment's start_frame when it did not, in the
\* import, the split from metadata and the split by markers, its trailing
\* segment included.
C24_StripPlacement ==
    (SplitRan /\ split_log.tracks_made > 0) =>
        \A i \in 1 .. Len(Segments) :
            LET track == nla_tracks[split_log.tracks_before + i]
            IN \A k \in 1 .. Len(track.strips) :
                   Float(track.strips[k].frame_start) =
                       IF split_log.offset_to_zero THEN 0 ELSE Segments[i].start_frame

\* C24's case: a split by markers made a third track, with its strip, for the
\* trailing segment, which starts at the last marker.
C24_Witness ==
    /\ split_log.op = "split_markers" /\ SplitRan
    /\ Len(Segments) = Len(timeline_markers) /\ Len(Segments) = 3
    /\ Segments[3].start_frame > 0
    /\ Len(nla_tracks[split_log.tracks_before + 3].strips) = 1

---------------------------------------------------------------------------
(* Properties of the ledger: frames and queue *)

\* C25 (as claimed): in a ledger of a run with gap_frames >= 0, whatever the
\* lengths in milliseconds, whole or not, each segment ends at or before the
\* frame the next one starts at.
C25_NoFrameOverlap ==
    last_run.gap_frames >= 0 =>
        \A i \in 1 .. (Len(Ledger) - 1) :
            Ledger[i].end_frame <= Ledger[i + 1].start_frame

\* C26 (as claimed): whatever adds, removals, moves, clears and runs came
\* before, the ledger's sources are sources of the queue as it is now, in the
\* queue's order.
C26_LedgerRefersToQueue ==
    /\ \A i \in 1 .. Len(Ledger) : Contains(motion_files, Ledger[i].source_file)
    /\ \A i, j \in 1 .. Len(Ledger) :
           i < j => PositionIn(motion_files, Ledger[i].source_file)
                        < PositionIn(motion_files, Ledger[j].source_file)

---------------------------------------------------------------------------
(* Properties of the queue operations *)

\* The list with the entries at positions a and b, counted from 0, exchanged.
Exchanged(list, a, b) ==
    [k \in 1 .. Len(list) |->
        IF k = a + 1 THEN list[b + 1] ELSE IF k = b + 1 THEN list[a + 1] ELSE list[k]]

ValidPosition(list, i) == 0 <= i /\ i < Len(list)

\* C27 (as claimed): for every index i, negative and past the end included,
\* move_motion_up(i) exchanges positions i and i - 1, and move_motion_down(i)
\* positions i and i + 1, when both are positions 0..len-1 of the queue, and
\* leaves the queue as it was otherwise; remove_motion_file(i) with i not a
\* position leaves the queue as it was.
C27_GuardedAdjacentSwap ==
    [][\A i \in Indices :
           /\ move_motion_up(i) =>
                  motion_files' =
                      IF ValidPosition(motion_files, i) /\ ValidPosition(motion_files, i - 1)
                      THEN Exchanged(motion_files, i, i - 1) ELSE motion_files
           /\ move_motion_down(i) =>
                  motion_files' =
                      IF ValidPosition(motion_files, i) /\ ValidPosition(motion_files, i + 1)
                      THEN Exchanged(motion_files, i, i + 1) ELSE motion_files
           /\ (remove_motion_file(i) /\ ~ValidPosition(motion_files, i)) =>
                  motion_files' = motion_files]_vars

---------------------------------------------------------------------------
(* The two loaders *)

\* C28: for the queue, fps and gap_frames of a run of MotionBatchLoader, and
\* the same load outcomes and lengths, MotionLibraryBrowser.load_to_timeline
\* builds the same ledger, entry by entry and field by field.
C28_SequencersAgree ==
    (last_error = "None" /\ Ledger # <<>>) =>
        LET other == load_to_timeline(last_run.queue, last_run.gap_frames, fps)
        IN /\ Len(other) = Len(Ledger)
           /\ \A p \in 1 .. Len(Ledger) :
                  /\ other[p].index = Ledger[p].index
                  /\ other[p].name = Ledger[p].name
                  /\ other[p].source_file = Ledger[p].source_file
                  /\ other[p].start_time_ms = Ledger[p].start_time_ms
                  /\ other[p].length_ms = Ledger[p].length_ms
                  /\ other[p].start_frame = Ledger[p].start_frame
                  /\ other[p].end_frame = Ledger[p].end_frame
                  /\ other[p].length_frames = Ledger[p].length_frames

\* C28's case: a run with a gap over a queue whose first source failed has
\* placed two segments, the second after a length with a fraction.
C28_Witness ==
    /\ last_error = "None"
    /\ last_run.gap_frames > 0
    /\ Len(Ledger) = 2
    /\ Ledger[1].index = 1
    /\ Ledger[1].length_ms % Resolution # 0

---------------------------------------------------------------------------
(* Properties of the export *)

\* C29: export_with_metadata on an empty ledger returns an error and writes
\* nothing, so every record on disk has clip_count >= 1 and a clips list that
\* is not empty.
C29_ExportNeedsLedger ==
    /\ [][\A has_avatar, write_ok \in BOOLEAN :
              (export_with_metadata(has_avatar, write_ok) /\ loaded_clips_info = <<>>)
              => (last_error' \in {"No avatar found", "No clips loaded"}
                     /\ json_file' = json_file)]_vars
    /\ [](json_file.exists =>
              (Written["clip_count"] >= 1 /\ Written["clips"] # <<>>))

\* C29's case: a run over a queue placed nothing and the export that followed
\* was refused, with no record on disk.
C29_Witness ==
    /\ last_error = "No clips loaded"
    /\ last_run.queue # <<>>
    /\ loaded_clips_info = <<>>
    /\ ~json_file.exists

\* C30: a run of load_motions_to_timeline, whether it places all, some or none
\* of the sources or returns early, leaves the queue as it was, and a run over
\* the queue it left, with the same gap_frames, fps and load outcomes, builds
\* the ledger it built.
C30_RunLeavesQueue ==
    [][\A has_avatar \in BOOLEAN, gap_frames \in GapChoices :
           load_motions_to_timeline(has_avatar, gap_frames) =>
               /\ motion_files' = motion_files
               /\ last_error' = "None" =>
                      PlaceAll(motion_files', gap_frames, fps') = loaded_clips_info']_vars

\* C30's case: a run has placed some sources of its queue and not others, and
\* the queue is the one the run went over.
C30_Witness ==
    /\ last_error = "None"
    /\ Ledger # <<>>
    /\ Len(Ledger) < Len(last_run.queue)
    /\ motion_files = last_run.queue

====
